---- MODULE Spec2Model ----
(***************************************************************************)
(* Model of the websocket connection layer of ai-interview-buddy:          *)
(* backend/websocket.py (ConnectionManager, websocket_endpoint) and the    *)
(* conversation history of backend/services/ai_service.py.                 *)
(*                                                                         *)
(* One endpoint coroutine runs per websocket.  asyncio is single-threaded: *)
(* a coroutine only gives up control at an await, so every action below is *)
(* the code between two awaits of one coroutine.                           *)
(***************************************************************************)
EXTENDS Integers, Sequences, FiniteSets, TLC

\* ------------------------------------------------------------------ bounds
\* Frames the clients send, all websockets together.
MaxFrames == 2
\* Utterances appended in the history-only specification SpecHist.
MaxAppends == 23

\* The websocket objects handed to websocket_endpoint.
Channels == {"w1", "w2"}
\* The values uuid.uuid4() returns, in the order it returns them.
SessionIds == {"u1", "u2", "u3"}
Uuids == <<"u1", "u2", "u3">>
\* The texts a transcription may return.
Texts == {"t1", "t2"}
\* The frames a client may send (what json.loads and handle_message see).
FrameKinds == {"audio", "audio_bad", "ping", "clear_history", "bogus",
               "not_json", "not_object"}

\* ai_service.py:139  "if len(self.conversation_history) > 20"
HistoryCap == 20

\* Frames a client of the streaming endpoint sends in a run.
MaxChunks == 3

\* main.py:173  "if len(buffer) > 32000"
Threshold == 32000

None == "None"

VARIABLES
    active_connections, \* ConnectionManager.active_connections: id -> websocket
    sessions,           \* ConnectionManager.sessions: id -> InterviewSession
    conversation_history, \* AIService.conversation_history (one AIService per manager)
    chan,               \* per websocket: the calls of send_text, in order
    accepted,           \* per websocket: number of accept() calls
    inbox,              \* per websocket: frames sent by the client, not yet received
    pc,                 \* per endpoint coroutine: where it is suspended
    session_id,         \* per endpoint coroutine: local session_id
    frame,              \* per endpoint coroutine: kind of the frame being handled
    transcription,      \* per endpoint coroutine: local transcription
    histArg,            \* per endpoint coroutine: conversation_history= argument
    sends,              \* per endpoint coroutine: send_message calls of the current handler
    port,               \* per endpoint coroutine: what the last awaited service did
    backend,            \* per endpoint coroutine: the generation backend at the call
    arrived,            \* per websocket: every frame the client sent, in order
    handled,            \* per websocket: frames whose handler was entered, in order
    completed,          \* per websocket: number of handlers that returned
    disconnects,        \* per session id: number of disconnect() calls
    appended,           \* utterances appended since the last clear
    nappend,            \* number of utterances appended (SpecHist)
    live,               \* the websockets that clients open in this run
    kinds,              \* the kinds of frame the clients send in this run
    ports,              \* what the transcription and suggestion services may do
    llm,                \* LLMService: use_local_llm, model_ready
    tips,               \* the last call of LLMService.generate_suggestions
    retriever,          \* ContextRetriever: resume_data, job_description
    ctx,                \* the last call of ContextRetriever.retrieve_context
    labels,             \* per text: the label the first detect_intent call returned
    detected,           \* the last call of detect_intent
    buffer,             \* audio_socket: the chunks accumulated, oldest first
    segments,           \* audio_socket: the segments handed to transcribe_segment
    spc,                \* audio_socket: where the coroutine is
    stext,              \* audio_socket: local text
    out,                \* audio_socket: the last payload given to send_json
    nchunks             \* audio_socket: number of frames received

vars == <<active_connections, sessions, conversation_history, chan, accepted,
          inbox, pc, session_id, frame, transcription, histArg, sends, port,
          backend, arrived, handled, completed, disconnects, appended, nappend,
          live, kinds, ports, llm, tips, retriever, ctx, labels, detected,
          buffer, segments, spc, stext, out, nchunks>>

\* The streaming endpoint.
streaming == <<buffer, segments, spc, stext, out, nchunks>>

\* The intent detector.
intents == <<labels, detected>>

\* The suggestion and context services, which the connection layer leaves alone.
services == <<llm, tips, retriever, ctx, intents, streaming>>

\* ------------------------------------------------------------ messages
Msg(t, st, txt, sid) == [type |-> t, status |-> st, text |-> txt, session_id |-> sid]

ConnectedMsg(sid)    == Msg("status", "connected", "Connected to AI Interview Buddy", sid)
TranscribingMsg      == Msg("status", "transcribing", "Processing audio...", "")
TranscriptionMsg(t)  == Msg("transcription", "", t, "")
GeneratingMsg        == Msg("status", "generating", "Generating response suggestion...", "")
AiResponseMsg(t)     == Msg("ai_response", "", t, "")
GenFailedMsg         == Msg("error", "", "Failed to generate AI response", "")
NoSpeechMsg          == Msg("status", "no_speech", "No speech detected in audio", "")
AudioFailedMsg       == Msg("error", "", "Audio processing failed", "")
InvalidAudioMsg      == Msg("error", "", "Invalid audio data", "")
PongMsg              == Msg("pong", "", "timestamp", "")
HistoryClearedMsg    == Msg("status", "history_cleared", "Conversation history cleared", "")
\* As if the error text did not interpolate message_type.
UnknownTypeMsg_anonymous(k) == Msg("error", "", "Unknown message type", "")
\* lines 153-157: the text ends with the type tag received.
UnknownTypeMsg(k)    == Msg("error", "", "Unknown message type", k)
InvalidJsonMsg       == Msg("error", "", "Invalid JSON format", "")

\* json.dumps(message): the wire text, here the tuple of keys and values.
json_dumps(m) == <<"type", m.type, "status", m.status, "text", m.text,
                   "session_id", m.session_id>>

Restrict(f, S) == [x \in S |-> f[x]]

Min(a, b) == IF a < b THEN a ELSE b

EmptyMap == [x \in {} |-> x]

\* ------------------------------------------------- ConnectionManager
\* As if connect forgot to create the InterviewSession.
register_connection_only(ac, sess, sid, ws) ==
    [ac |-> ac @@ (sid :> ws), sess |-> sess]

\* connect, lines 25-30: registration of a fresh id.
register(ac, sess, sid, ws) ==
    [ac   |-> ac @@ (sid :> ws),
     sess |-> sess @@ (sid :> [is_active |-> TRUE])]

\* As if the del were not guarded: KeyError for an id that is not connected.
disconnect_unguarded(ac, sess, sid) ==
    [ac     |-> IF sid \in DOMAIN ac THEN Restrict(ac, DOMAIN ac \ {sid}) ELSE ac,
     sess   |-> IF sid \in DOMAIN sess
                THEN [sess EXCEPT ![sid].is_active = FALSE]
                ELSE sess,
     raised |-> sid \notin DOMAIN ac]

\* As if disconnect only flipped the flag and kept the connection entry.
disconnect_keep_connection(ac, sess, sid) ==
    [ac     |-> ac,
     sess   |-> IF sid \in DOMAIN sess
                THEN [sess EXCEPT ![sid].is_active = FALSE]
                ELSE sess,
     raised |-> FALSE]

\* As if disconnect emptied the connection table.
disconnect_everyone(ac, sess, sid) ==
    [ac     |-> EmptyMap,
     sess   |-> [u \in DOMAIN sess |-> [is_active |-> FALSE]],
     raised |-> FALSE]

\* disconnect(session_id): both steps are guarded by a membership test.
disconnect(ac, sess, sid) ==
    [ac     |-> IF sid \in DOMAIN ac THEN Restrict(ac, DOMAIN ac \ {sid}) ELSE ac,
     sess   |-> IF sid \in DOMAIN sess
                THEN [sess EXCEPT ![sid].is_active = FALSE]
                ELSE sess,
     raised |-> FALSE]

\* As if a failed send were only logged.
send_message_keep(ac, sess, ch, sid, m, ok, n) ==
    IF sid \in DOMAIN ac
    THEN LET call == [payload |-> json_dumps(m), ok |-> ok, n |-> n]
         IN  [ac |-> ac, sess |-> sess, ch |-> [ch EXCEPT ![ac[sid]] = Append(@, call)],
              res |-> IF ok THEN "sent" ELSE "failed", raised |-> FALSE]
    ELSE [ac |-> ac, sess |-> sess, ch |-> ch, res |-> "noop", raised |-> FALSE]

\* As if the message went to every connected websocket.
send_message_broadcast(ac, sess, ch, sid, m, ok, n) ==
    IF sid \in DOMAIN ac
    THEN LET call == [payload |-> json_dumps(m), ok |-> ok, n |-> n]
             open == {ac[u] : u \in DOMAIN ac}
             sent == [x \in DOMAIN ch |->
                        IF x \in open THEN Append(ch[x], call) ELSE ch[x]]
         IN  IF ok
             THEN [ac |-> ac, sess |-> sess, ch |-> sent, res |-> "sent",
                   raised |-> FALSE]
             ELSE LET d == disconnect(ac, sess, sid)
                  IN  [ac |-> d.ac, sess |-> d.sess, ch |-> sent, res |-> "failed",
                       raised |-> d.raised]
    ELSE [ac |-> ac, sess |-> sess, ch |-> ch, res |-> "noop", raised |-> FALSE]

\* send_message(session_id, message); ok is whether websocket.send_text returns
\* (TRUE) or raises (FALSE).  n tags the call with the handler that issued it.
send_message(ac, sess, ch, sid, m, ok, n) ==
    IF sid \in DOMAIN ac
    THEN LET ws   == ac[sid]
             call == [payload |-> json_dumps(m), ok |-> ok, n |-> n]
             sent == [ch EXCEPT ![ws] = Append(@, call)]
         IN  IF ok
             THEN [ac |-> ac, sess |-> sess, ch |-> sent, res |-> "sent",
                   raised |-> FALSE]
             ELSE LET d == disconnect(ac, sess, sid)
                  IN  [ac |-> d.ac, sess |-> d.sess, ch |-> sent, res |-> "failed",
                       raised |-> d.raised]
    ELSE [ac |-> ac, sess |-> sess, ch |-> ch, res |-> "noop", raised |-> FALSE]

\* ---------------------------------------------------------- AIService
\* As if the slice kept the first 20 entries.
add_to_conversation_history_oldest(h, text) ==
    LET a == Append(h, text)
    IN  IF Len(a) > HistoryCap THEN SubSeq(a, 1, HistoryCap) ELSE a

\* add_to_conversation_history(text): append, then keep the last 20.
add_to_conversation_history(h, text) ==
    LET a == Append(h, text)
    IN  IF Len(a) > HistoryCap
        THEN SubSeq(a, Len(a) - HistoryCap + 1, Len(a))
        ELSE a

\* As if clear_conversation_history rebound a local name.
clear_conversation_history_noop(h) == h

\* clear_conversation_history, lines 142-143.
clear_conversation_history(h) == <<>>

get_conversation_history(h) == h

\* ---------------------------------------------------------- LLMService
\* intent.py: the labels detect_intent returns.
Intents == {"behavioral", "technical", "experience", "motivation",
            "strengths_weaknesses", "future", "situational", "general_question",
            "unknown"}

\* context["matching_skills"], as retrieve_context fills it.
SkillLists == {<<>>, <<"python">>, <<"python", "sql", "aws">>}

\* os.getenv("USE_LOCAL_LLM"): unset, or the text it is set to.
EnvValues == {None, "true", "True", "false"}

lower(e) == IF e = "True" THEN "true" ELSE e

\* __init__, lines 11-21.
LLMService(env) ==
    [use_local_llm |-> lower(IF env = None THEN "true" ELSE env) = "true",
     model_ready   |-> FALSE]

\* ollama_manager.setup_default_model(): a model works, none does, or the
\* call raises.
SetupOutcomes == {"ready", "failed", "raise"}

\* ensure_model_ready, lines 23-45.
ensure_model_ready(l, s) ==
    IF l.model_ready \/ ~l.use_local_llm THEN l
    ELSE IF s = "ready" THEN [l EXCEPT !.model_ready = TRUE]
    ELSE [l EXCEPT !.use_local_llm = FALSE]

\* What a call returns: a dict (or, ret being "array", a list handed on as it
\* came), None, or an exception.
Dict(b, f)  == [ret |-> "dict", bullets |-> b, follow_up |-> f]
NoneResult  == [ret |-> "None", bullets |-> <<>>, follow_up |-> None]
Raised      == [ret |-> "raise", bullets |-> <<>>, follow_up |-> None]

\* A stripped line of the model's output, by what _parse_text_response tests:
\* empty; led by a bullet sign; led by a digit and one of ".):"; a digit
\* alone; mentioning "follow" and "up"; any other text. t is the text kept.
Line(k, t) == [k |-> k, t |-> t]

\* json.loads of the model's output: its type, its members ("in" tests keys
\* of an object, elements of an array) and the two values looked for (an
\* absent bullets is written <<>>, an absent or null follow_up None).
Json(t, keys, b, f) == [t |-> t, keys |-> keys, bullets |-> b, follow_up |-> f]
NotJson == Json("invalid", {}, <<>>, None)

\* The "response" field of the backend's answer: the text, line by line, and
\* what json.loads makes of it.
Content(j, lines) == [json |-> j, lines |-> lines]

Contents ==
    { Content(Json("object", {"bullets", "follow_up"}, <<"tip 1", "tip 2">>, "ask 1"),
              <<Line("text", "{...}")>>),
      Content(Json("object", {"bullets", "follow_up"}, <<>>, ""),
              <<Line("text", "{...}")>>),
      Content(Json("object", {"bullets", "follow_up"}, <<"tip 1">>, None),
              <<Line("text", "{...}")>>),
      Content(Json("object", {"bullets"}, <<"tip 1">>, None),
              <<Line("text", "{...}")>>),
      Content(Json("array", {"bullets", "follow_up"}, <<>>, None),
              <<Line("text", "[...]")>>),
      Content(Json("array", {}, <<>>, None), <<Line("text", "[]")>>),
      Content(Json("number", {}, <<>>, None), <<Line("digit", "7")>>),
      Content(NotJson, <<Line("blank", "")>>),
      Content(NotJson, <<Line("text", "Sure, here is some advice")>>),
      Content(NotJson, <<Line("text", "Advice:"), Line("bullet", "tip 1"),
                         Line("numbered", "tip 2"), Line("bullet", ""),
                         Line("bullet", "tip 4"), Line("blank", ""),
                         Line("follow", "Follow-up question:"),
                         Line("text", "ask 1"), Line("text", "ask 2")>>),
      Content(NotJson, <<Line("bullet", "tip 1"), Line("digit", "2")>>) }

\* session.post(.../api/generate): an answer with a status, or an exception
\* (connection refused, the 10 s timeout).
Reply(st, c) == [status |-> st, content |-> c]
NoContent == Content(NotJson, <<>>)
Replies ==
    {Reply("200", c) : c \in Contents} \cup {Reply("500", NoContent), Reply("raise", NoContent)}

\* The loop of _parse_text_response, lines 156-171, from line i on.
RECURSIVE parse_lines(_, _, _)
parse_lines(lines, i, acc) ==
    IF i > Len(lines) THEN acc
    ELSE LET ln == lines[i]
         IN  CASE ln.k = "blank" -> parse_lines(lines, i + 1, acc)
               [] ln.k \in {"bullet", "numbered"} ->
                    parse_lines(lines, i + 1, [acc EXCEPT !.bullets = Append(@, ln.t)])
               [] ln.k = "digit" -> [acc EXCEPT !.raised = TRUE]
               [] ln.k = "follow" ->
                    parse_lines(lines, i + 1, [acc EXCEPT !.section = "follow_up"])
               [] OTHER ->
                    IF acc.section = "follow_up" /\ acc.follow_up = ""
                    THEN parse_lines(lines, i + 1, [acc EXCEPT !.follow_up = ln.t])
                    ELSE parse_lines(lines, i + 1, acc)

\* _parse_text_response, lines 149-179: line[1] of a one-character line
\* raises IndexError.
parse_text_response(content) ==
    LET a == parse_lines(content.lines, 1,
                         [bullets |-> <<>>, follow_up |-> "", section |-> None,
                          raised |-> FALSE])
    IN  IF a.raised THEN Raised
        ELSE Dict(IF a.bullets = <<>>
                  THEN <<"Focus on specific examples from your experience",
                         "Connect your answer to the job requirements">>
                  ELSE SubSeq(a.bullets, 1, Min(3, Len(a.bullets))),
                  IF a.follow_up = ""
                  THEN "What questions do you have about the role or the team?"
                  ELSE a.follow_up)

\* _generate_with_ollama, lines 69-108: every exception ends in None.
generate_with_ollama(reply) ==
    IF reply.status # "200" THEN NoneResult
    ELSE LET j == reply.content.json
             parsed == parse_text_response(reply.content)
         IN  CASE j.t = "number" -> NoneResult
               [] j.t # "invalid" /\ {"bullets", "follow_up"} \subseteq j.keys ->
                    [ret |-> IF j.t = "object" THEN "dict" ELSE j.t,
                     bullets |-> j.bullets, follow_up |-> j.follow_up]
               [] OTHER -> IF parsed.ret = "raise" THEN NoneResult ELSE parsed

\* The table of _mock_suggestions, lines 184-225.
mock_responses ==
    [i \in {"experience", "behavioral", "motivation", "strengths_weaknesses",
            "technical"} |->
        CASE i = "experience" ->
               Dict(<<"Highlight your most relevant achievements with specific metrics",
                      "Connect your background directly to the job requirements",
                      "Show progression and growth in your career">>,
                    "What opportunities for professional development does this role offer?")
          [] i = "behavioral" ->
               Dict(<<"Use the STAR method: Situation, Task, Action, Result",
                      "Choose an example that shows leadership or problem-solving",
                      "Quantify your impact with specific numbers or outcomes">>,
                    "How does the team handle challenging situations like this?")
          [] i = "motivation" ->
               Dict(<<"Research the company's mission and values beforehand",
                      "Explain how this role aligns with your career goals",
                      "Show genuine enthusiasm and specific knowledge about the company">>,
                    "What excites the team most about working here?")
          [] i = "strengths_weaknesses" ->
               Dict(<<"Choose strengths that are directly relevant to the job",
                      "For weaknesses, show how you're actively improving",
                      "Provide concrete examples to support your points">>,
                    "What qualities do your most successful team members have?")
          [] OTHER ->
               Dict(<<"Break down complex concepts into clear, simple terms",
                      "Use specific examples from your experience",
                      "Show your thought process and problem-solving approach">>,
                    "What technical challenges is the team currently facing?")]

\* The default of mock_responses.get, lines 228-235.
default_response ==
    Dict(<<"Take a moment to organize your thoughts before answering",
           "Provide specific examples whenever possible",
           "Keep your answer focused and concise">>,
         "What questions do you have about the role or team?")

\* ", ".join(skills[:2])
join_first_two(skills) ==
    IF Len(skills) = 1 THEN skills[1] ELSE skills[1] \o ", " \o skills[2]

\* _mock_suggestions, lines 181-242.
mock_suggestions(intent, context) ==
    LET response == IF intent \in DOMAIN mock_responses
                    THEN mock_responses[intent] ELSE default_response
    IN  IF context.matching_skills # <<>>
        THEN [response EXCEPT !.bullets =
                 Append(@, "Mention your experience with "
                           \o join_first_two(context.matching_skills))]
        ELSE response

\* "if result:" of line 60: None is falsy, a dict or list with members is not.
truthy(r) == r.ret # "None"

\* generate_suggestions, lines 47-67: the result and the service's fields
\* after the call. s is what the model setup does if it is run, reply what
\* the backend answers if it is asked.
generate_suggestions(l, intent, context, s, reply) ==
    LET l1 == ensure_model_ready(l, s)
        primary == generate_with_ollama(reply)
    IN  [llm    |-> l1,
         asked  |-> l1.use_local_llm,
         result |-> IF ~l1.use_local_llm THEN mock_suggestions(intent, context)
                    ELSE IF truthy(primary) THEN primary
                    ELSE mock_suggestions(intent, context)]

\* No call of generate_suggestions yet.
NoTips ==
    [called |-> FALSE, intent |-> None, skills |-> <<>>, setup |-> None,
     reply |-> Reply(None, NoContent), asked |-> FALSE, result |-> NoneResult]

\* ----------------------------------------------------- ContextRetriever
\* A text is written as the set of its words, in lower case and without
\* punctuation; is_str is false for an argument that is no text at all.
Text(words) == [is_str |-> TRUE, words |-> words]
NoText == [is_str |-> FALSE, words |-> {}]

\* The words used below that _extract_keywords drops, lines 129-131: at most
\* three letters long, or one of common_words.
NoKeywords == {"me", "the", "why", "led", "with"}

\* _extract_keywords, lines 126-132.
extract_keywords(text) == text.words \ NoKeywords

Questions ==
    {Text({"tell", "me", "about", "the", "payments", "team"}),
     Text({"why", "this", "company"}),
     Text({"your", "experience", "with", "python"}),
     NoText}

\* intent is a label, or None (the default of the parameter).
RetrieverIntents == {"experience", "behavioral", "motivation", "technical", None}

\* A member of resume.json that should be a list of texts: it is one, or it
\* is something the loops over it raise on (null, or a list holding a
\* number).
List(items) == [ok |-> TRUE, items |-> items]
NotAList == [ok |-> FALSE, items |-> <<>>]

ExperienceValues ==
    {List(<<>>),
     List(<<{"led", "the", "payments", "team"}, {"developed", "python", "services"}>>),
     NotAList}

SkillValues == {List(<<>>), List(<<"python", "sql">>), NotAList}

\* json.load of resume.json: an object with the two members read, the empty
\* object, or a non-empty array.
Doc(t, e, sk) == [t |-> t, experience |-> e, skills |-> sk]
EmptyDoc == Doc("empty", List(<<>>), List(<<>>))
Docs ==
    {EmptyDoc, Doc("array", List(<<>>), List(<<>>))}
    \cup {Doc("object", e, sk) : e \in ExperienceValues, sk \in SkillValues}

\* A file of the data directory: absent, unreadable as JSON, or holding a
\* value.
ResumeFiles ==
    {[state |-> "absent", doc |-> EmptyDoc], [state |-> "corrupt", doc |-> EmptyDoc]}
    \cup {[state |-> "ok", doc |-> d] : d \in Docs}

JdFiles ==
    {[state |-> st, raw_text |-> ""] : st \in {"absent", "corrupt", "ok"}}
    \cup {[state |-> "ok", raw_text |-> "job description"]}

\* __init__, lines 10-14.
ContextRetriever == [resume_data |-> EmptyDoc, job_description |-> ""]

\* _load_stored_data, lines 107-124: an exception ends the loading where it
\* is raised.
load_stored_data(r, rf, jf) ==
    LET resume_raises == r.resume_data.t = "empty" /\ rf.state = "corrupt"
        r1 == IF r.resume_data.t = "empty" /\ rf.state = "ok"
              THEN [r EXCEPT !.resume_data = rf.doc] ELSE r
    IN  IF resume_raises THEN r
        ELSE IF r1.job_description = "" /\ jf.state = "ok"
             THEN [r1 EXCEPT !.job_description = jf.raw_text]
             ELSE r1

\* What a finder does: it returns a list or it raises.
Found(items) == [raised |-> FALSE, items |-> items]
Raises == [raised |-> TRUE, items |-> <<>>]

\* _find_relevant_experience, lines 189-202.
find_relevant_experience(r, question) ==
    IF r.resume_data.t = "empty" THEN Found(<<>>)
    ELSE IF ~question.is_str \/ r.resume_data.t # "object"
            \/ ~r.resume_data.experience.ok
         THEN Raises
         ELSE LET qk  == extract_keywords(question)
                  rel == SelectSeq(r.resume_data.experience.items,
                                   LAMBDA exp : qk \cap extract_keywords(Text(exp)) # {})
              IN  Found(SubSeq(rel, 1, Min(3, Len(rel))))

\* _find_matching_skills, lines 204-216.
find_matching_skills(r, question) ==
    IF r.resume_data.t = "empty" THEN Found(<<>>)
    ELSE IF ~question.is_str \/ r.resume_data.t # "object" \/ ~r.resume_data.skills.ok
         THEN Raises
         ELSE Found(SelectSeq(r.resume_data.skills.items,
                              LAMBDA skill : skill \in question.words))

\* _find_company_connections, lines 218-228.
find_company_connections(question) ==
    IF ~question.is_str THEN Raises
    ELSE Found((IF "why" \in question.words /\ "company" \in question.words
                THEN <<"Research shows this aligns with company values">>
                ELSE <<>>)
               \o (IF "experience" \in question.words
                   THEN <<"This experience directly relates to the job requirements">>
                   ELSE <<>>))

\* _generate_suggestions of the retriever, lines 230-247.
suggested_points(question, intent) ==
    CASE intent = "experience" ->
           <<"Focus on quantifiable achievements",
             "Connect your experience to job requirements">>
      [] intent = "behavioral" ->
           <<"Use the STAR method for structured responses",
             "Choose examples that show leadership or problem-solving">>
      [] intent = "motivation" ->
           <<"Show knowledge of company values and mission",
             "Explain how this role fits your career goals">>
      [] OTHER -> <<>>

\* lines 79-84.
EmptyBundle ==
    [relevant_experience |-> <<>>, matching_skills |-> <<>>,
     suggested_points |-> <<>>, company_connection |-> <<>>]

\* The try block of retrieve_context after the loading, lines 90-103: the
\* fields are assigned one after the other, and an exception leaves the
\* bundle as filled so far.
fill_context(r, question, intent) ==
    LET exp == find_relevant_experience(r, question)
        sk  == find_matching_skills(r, question)
        cc  == find_company_connections(question)
        has_resume == r.resume_data.t # "empty"
        has_jd == r.job_description # ""
        c1 == IF has_resume THEN [EmptyBundle EXCEPT !.relevant_experience = exp.items]
              ELSE EmptyBundle
        c2 == IF has_resume THEN [c1 EXCEPT !.matching_skills = sk.items] ELSE c1
        c3 == IF has_jd THEN [c2 EXCEPT !.company_connection = cc.items] ELSE c2
    IN  IF has_resume /\ exp.raised THEN [context |-> EmptyBundle, failed |-> TRUE]
        ELSE IF has_resume /\ sk.raised THEN [context |-> c1, failed |-> TRUE]
        ELSE IF has_jd /\ cc.raised THEN [context |-> c2, failed |-> TRUE]
        ELSE [context |-> [c3 EXCEPT !.suggested_points =
                                suggested_points(question, intent)],
              failed |-> FALSE]

\* retrieve_context, lines 75-105: the bundle returned, whether an exception
\* was logged, and the retriever's fields after the call.
retrieve_context(r, question, intent, rf, jf) ==
    LET r1 == load_stored_data(r, rf, jf)
        c  == fill_context(r1, question, intent)
    IN  [retriever |-> r1, context |-> c.context, failed |-> c.failed]

\* No call of retrieve_context yet.
NoContext ==
    [called |-> FALSE, question |-> NoText, intent |-> None,
     context |-> EmptyBundle, failed |-> FALSE]

\* ------------------------------------------------------- IntentDetector
\* question_patterns, lines 10-61, in the order of the dict.
question_patterns ==
    << [intent |-> "behavioral",
        patterns |-> <<"tell me about a time", "describe a situation",
                       "give me an example", "walk me through",
                       "how did you handle", "what would you do if">>],
       [intent |-> "technical",
        patterns |-> <<"how does .* work", "explain .* algorithm", "what is .*",
                       "how would you implement", "design a system", "code",
                       "programming">>],
       [intent |-> "experience",
        patterns |-> <<"tell me about yourself", "your background",
                       "your experience", "worked on", "previous role", "career">>],
       [intent |-> "motivation",
        patterns |-> <<"why do you want", "why are you interested",
                       "why should we hire", "what motivates you",
                       "why this company">>],
       [intent |-> "strengths_weaknesses",
        patterns |-> <<"greatest strength", "biggest weakness",
                       "what are you good at", "areas for improvement">>],
       [intent |-> "future",
        patterns |-> <<"where do you see yourself", "career goals", "five years",
                       "future plans">>],
       [intent |-> "situational",
        patterns |-> <<"what would you do", "how would you approach",
                       "if you were", "imagine you">>] >>

\* The question words of line 80.
question_words == {"what", "how", "why", "when", "where", "who"}

\* An argument of detect_intent: the text as written; the patterns re.search
\* finds in it as written and in its lower-cased form; the question words its
\* lower-cased form contains. is_str is false for None.
Utterance(raw, found, found_lower, words) ==
    [is_str |-> TRUE, raw |-> raw, found |-> found, found_lower |-> found_lower,
     words |-> words]
NullUtterance ==
    [is_str |-> FALSE, raw |-> None, found |-> {}, found_lower |-> {}, words |-> {}]

Utterances ==
    { Utterance("Tell me about a time you failed.", {},
                {"tell me about a time"}, {}),
      Utterance("What is your biggest weakness?", {"biggest weakness"},
                {"what is .*", "biggest weakness"}, {"what"}),
      Utterance("what would you do if a release failed?",
                {"what would you do if", "what would you do"},
                {"what would you do if", "what would you do"}, {"what"}),
      Utterance("Where do you see yourself in five years?", {"five years"},
                {"where do you see yourself", "five years"}, {"where"}),
      Utterance("Tell me about yourself.", {}, {"tell me about yourself"}, {}),
      Utterance("Why should we hire you?", {}, {"why should we hire"}, {"why"}),
      Utterance("If you were the lead, how would you approach it?",
                {"how would you approach"},
                {"if you were", "how would you approach"}, {"how"}),
      Utterance("How do you handle stress and pressure?", {}, {}, {"how"}),
      Utterance("Do you have any questions for us?", {}, {}, {}),
      Utterance("", {}, {}, {}),
      NullUtterance }

\* text.lower(): what is found in the text is what is found in its
\* lower-cased form.
text_lower(text) == [text EXCEPT !.found = text.found_lower]

\* re.search(pattern, text)
re_search(pattern, text) == pattern \in text.found

\* The categories of the table, by position, with a pattern found in text.
matching(text) ==
    {i \in 1..Len(question_patterns) :
        \E j \in 1..Len(question_patterns[i].patterns) :
            re_search(question_patterns[i].patterns[j], text)}

\* As if a later match overwrote an earlier one and the loops ran to the end.
detect_intent_last_wins(text) ==
    IF ~text.is_str \/ text.raw = "" THEN "unknown"
    ELSE LET lowered == text_lower(text)
             hits == matching(lowered)
         IN  IF hits # {}
             THEN question_patterns[CHOOSE i \in hits : \A k \in hits : i >= k].intent
             ELSE IF lowered.words \cap question_words # {}
                  THEN "general_question"
                  ELSE "unknown"

\* As if line 67 did not test the text: None has no lower().
detect_intent_no_guard(text) ==
    IF ~text.is_str THEN "raise"
    ELSE LET lowered == text_lower(text)
             hits == matching(lowered)
         IN  IF hits # {}
             THEN question_patterns[CHOOSE i \in hits : \A k \in hits : i <= k].intent
             ELSE IF lowered.words \cap question_words # {}
                  THEN "general_question"
                  ELSE "unknown"

\* detect_intent, lines 63-83.
detect_intent(text) ==
    IF ~text.is_str \/ text.raw = "" THEN "unknown"
    ELSE LET lowered == text_lower(text)
             hits == matching(lowered)
         IN  IF hits # {}
             THEN question_patterns[CHOOSE i \in hits : \A k \in hits : i <= k].intent
             ELSE IF lowered.words \cap question_words # {}
                  THEN "general_question"
                  ELSE "unknown"

\* No call of detect_intent yet.
NoDetection == [called |-> FALSE, text |-> NullUtterance, label |-> None]

\* ------------------------------------------------------- audio_socket
\* The sizes, in bytes, of the binary frames a client sends.
ChunkSizes == {16000, 16001, 40000}

\* A frame received: its position in the stream and its size.
Chunk(id, size) == [id |-> id, size |-> size]

\* len(buffer)
RECURSIVE buffer_len(_)
buffer_len(b) == IF b = <<>> THEN 0 ELSE Head(b).size + buffer_len(Tail(b))

\* What is given to ws.send_json: the tips with the transcript added (lines
\* 190-193), or the dict of lines 197-201. An absent key is written None, as
\* is a null value.
Payload(b, f, transcript, err) ==
    [bullets |-> b, follow_up |-> f, transcript |-> transcript, error |-> err]
ErrorPayload == Payload(<<"Error processing audio">>, None, None, "str(e)")
NoPayload == Payload(<<>>, None, None, None)

\* The texts transcribe_segment returns in a run.
StreamTexts ==
    {u \in Utterances : u.raw \in {"Tell me about a time you failed.",
                                  "Do you have any questions for us?"}}

\* What the backend answers in a run of the streaming endpoint.
StreamReplies ==
    {r \in Replies :
        \/ r.status = "500"
        \/ /\ r.status = "200"
           /\ r.content.json.t \in {"object", "array"}
           /\ r.content.json.keys = {"bullets", "follow_up"}}

\* ------------------------------------------------------------- Init
Setup(l, k, p) ==
    /\ live = l
    /\ kinds = k
    /\ ports = p
    /\ active_connections = EmptyMap
    /\ sessions = EmptyMap
    /\ conversation_history = <<>>
    /\ chan = [w \in Channels |-> <<>>]
    /\ accepted = [w \in Channels |-> 0]
    /\ inbox = [w \in Channels |-> <<>>]
    /\ pc = [w \in Channels |-> "closed"]
    /\ session_id = [w \in Channels |-> None]
    /\ frame = [w \in Channels |-> None]
    /\ transcription = [w \in Channels |-> None]
    /\ histArg = [w \in Channels |-> <<>>]
    /\ sends = [w \in Channels |-> <<>>]
    /\ port = [w \in Channels |-> None]
    /\ backend = [w \in Channels |-> None]
    /\ arrived = [w \in Channels |-> <<>>]
    /\ handled = [w \in Channels |-> <<>>]
    /\ completed = [w \in Channels |-> 0]
    /\ disconnects = [u \in SessionIds |-> 0]
    /\ appended = <<>>
    /\ tips = NoTips
    /\ retriever = ContextRetriever
    /\ ctx = NoContext
    /\ labels = EmptyMap
    /\ detected = NoDetection
    /\ buffer = <<>>
    /\ segments = <<>>
    /\ spc = "closed"
    /\ stext = NullUtterance
    /\ out = NoPayload
    /\ nchunks = 0
    /\ nappend = 0

\* What a service call may do: return a value, return nothing, raise.
PortOutcomes == {"value", None, "raise"}

\* One client, sending any frame; the services may fail.
Init == Setup({"w1"}, FrameKinds, PortOutcomes) /\ llm = LLMService(None)

\* Two clients, sending well-formed frames; the services answer.
InitTwo ==
    /\ Setup(Channels, {"audio", "ping", "clear_history"}, {"value"})
    /\ llm = LLMService(None)

\* ------------------------------------------------ websocket_endpoint
\* The handler that issues a send: 0 is connect, k the k-th frame received.
Handler(w) == Len(handled[w])

\* One call of send_message by the coroutine of w, which then goes on at next.
Send(w, m, next) ==
    \E ok \in BOOLEAN :
        LET r == send_message(active_connections, sessions, chan, session_id[w],
                              m, ok, Handler(w))
        IN  /\ active_connections' = r.ac
            /\ sessions' = r.sess
            /\ chan' = r.ch
            /\ sends' = [sends EXCEPT ![w] = Append(@, [msg |-> m, res |-> r.res])]
            /\ disconnects' = IF r.res = "failed"
                              THEN [disconnects EXCEPT ![session_id[w]] = @ + 1]
                              ELSE disconnects
            /\ pc' = [pc EXCEPT ![w] = IF r.raised THEN "crashed" ELSE next]

\* The handler of the current frame returns to the receive loop.
Return(w) == completed' = [completed EXCEPT ![w] = @ + 1]

\* str(uuid.uuid4()): an id no earlier call returned.
uuid4(sess) == Uuids[Cardinality(DOMAIN sess) + 1]

\* connect, lines 22-33: accept, fresh id, registration.
Connect(w) ==
    /\ pc[w] = "closed"
    /\ w \in live
    /\ LET sid == uuid4(sessions)
           r   == register(active_connections, sessions, sid, w)
       IN  /\ active_connections' = r.ac
           /\ sessions' = r.sess
           /\ session_id' = [session_id EXCEPT ![w] = sid]
    /\ accepted' = [accepted EXCEPT ![w] = @ + 1]
    /\ pc' = [pc EXCEPT ![w] = "connect_send"]
    /\ UNCHANGED <<conversation_history, chan, inbox, frame, transcription, histArg,
                   sends, port, arrived, handled, completed, disconnects, appended, nappend,
          live, kinds, ports, backend, services>>

\* connect, lines 35-44: the confirmation, then return session_id.
ConnectSend(w) ==
    /\ pc[w] = "connect_send"
    /\ Send(w, ConnectedMsg(session_id[w]), "recv")
    /\ UNCHANGED <<conversation_history, accepted, inbox, session_id, frame,
                   transcription, histArg, port, arrived, handled, completed, appended,
                   nappend, live, kinds, ports, backend, services>>

RECURSIVE SumLen(_, _)
SumLen(f, S) ==
    IF S = {} THEN 0
    ELSE LET x == CHOOSE y \in S : TRUE IN Len(f[x]) + SumLen(f, S \ {x})

FramesSent == SumLen(arrived, Channels)

\* The client writes one more frame on its websocket.
ClientSend(w) ==
    /\ pc[w] \in {"connect_send", "recv"}
    /\ FramesSent < MaxFrames
    /\ \E k \in kinds :
          /\ inbox' = [inbox EXCEPT ![w] = Append(@, k)]
          /\ arrived' = [arrived EXCEPT ![w] = Append(@, k)]
    /\ UNCHANGED <<active_connections, sessions, conversation_history, chan, accepted,
                   pc, session_id, frame, transcription, histArg, sends, port, handled,
                   completed, disconnects, appended, nappend, live, kinds, ports, backend, services>>

\* As if the handler were started as a task and not awaited.
CanReceive_task(w) == pc[w] \notin {"closed", "connect_send", "done", "crashed"}

\* As if a service call held the event loop: no coroutine receives while
\* another one is at its transcription or generation call.
CanReceive_loop_held(w) ==
    /\ pc[w] = "recv"
    /\ \A x \in Channels : pc[x] \notin {"transcribe", "generate"}

\* websocket_endpoint awaits handle_message inside the loop: receive_text is
\* only called again once the handler of the previous frame has returned.
CanReceive(w) == pc[w] = "recv"

\* receive_text returns the oldest frame not yet received.
next_frame(q) == 1

\* As if handle_message had no ping branch.
dispatch_no_ping(k) ==
    CASE k = "not_json"      -> "send_invalid_json"
      [] k = "not_object"    -> "crashed"
      [] k = "audio"         -> "send_transcribing"
      [] k = "audio_bad"     -> "send_invalid_audio"
      [] k = "clear_history" -> "send_history_cleared"
      [] OTHER               -> "send_unknown"

\* As if the endpoint did not catch json.JSONDecodeError.
dispatch_json_fatal(k) ==
    CASE k = "not_json"      -> "crashed"
      [] k = "not_object"    -> "crashed"
      [] k = "audio"         -> "send_transcribing"
      [] k = "audio_bad"     -> "send_invalid_audio"
      [] k = "ping"          -> "send_pong"
      [] k = "clear_history" -> "send_history_cleared"
      [] OTHER               -> "send_unknown"

\* As if the decoding of line 132 were done inside handle_audio_data, after
\* its first status message.
dispatch_decode_late(k) ==
    CASE k = "not_json"      -> "send_invalid_json"
      [] k = "not_object"    -> "crashed"
      [] k = "audio"         -> "send_transcribing"
      [] k = "audio_bad"     -> "send_transcribing"
      [] k = "ping"          -> "send_pong"
      [] k = "clear_history" -> "send_history_cleared"
      [] OTHER               -> "send_unknown"

\* json.loads and the branches of handle_message, up to the first await.
dispatch(k) ==
    CASE k = "not_json"      -> "send_invalid_json"
      [] k = "not_object"    -> "crashed"
      [] k = "audio"         -> "send_transcribing"
      [] k = "audio_bad"     -> "send_invalid_audio"
      [] k = "ping"          -> "send_pong"
      [] k = "clear_history" -> "send_history_cleared"
      [] OTHER               -> "send_unknown"

Receive(w) ==
    /\ CanReceive(w)
    /\ inbox[w] # <<>>
    /\ LET i == next_frame(inbox[w])
           k == inbox[w][i]
       IN  /\ inbox' = [inbox EXCEPT ![w] =
                          SubSeq(@, 1, i - 1) \o SubSeq(@, i + 1, Len(@))]
           /\ handled' = [handled EXCEPT ![w] = Append(@, k)]
           /\ frame' = [frame EXCEPT ![w] = k]
           /\ pc' = [pc EXCEPT ![w] = dispatch(k)]
           /\ IF k = "clear_history"
              THEN /\ conversation_history' =
                          clear_conversation_history(conversation_history)
                   /\ appended' = <<>>
              ELSE UNCHANGED <<conversation_history, appended>>
    /\ sends' = [sends EXCEPT ![w] = <<>>]
    /\ port' = [port EXCEPT ![w] = None]
    /\ backend' = [backend EXCEPT ![w] = None]
    /\ UNCHANGED <<active_connections, sessions, chan, accepted, session_id,
                   transcription, histArg, arrived, completed, disconnects, nappend,
                   live, kinds, ports, services>>

\* receive_text raises WebSocketDisconnect: lines 176-177.
ClientDisconnect(w) ==
    /\ pc[w] = "recv"
    /\ LET d == disconnect(active_connections, sessions, session_id[w])
       IN  /\ active_connections' = d.ac
           /\ sessions' = d.sess
           /\ pc' = [pc EXCEPT ![w] = IF d.raised THEN "crashed" ELSE "done"]
    /\ disconnects' = [disconnects EXCEPT ![session_id[w]] = @ + 1]
    /\ UNCHANGED <<conversation_history, chan, accepted, inbox, session_id, frame,
                   transcription, histArg, sends, port, arrived, handled, completed,
                   appended, nappend, live, kinds, ports, backend, services>>

\* ------------------------------------------- handle_audio_data
\* Variables no send touches, besides those an action names itself.
SendFrame == <<accepted, inbox, session_id, frame, arrived, handled, nappend,
               live, kinds, ports, backend, services>>

\* lines 67-70: status transcribing, then the transcription is awaited.
SendTranscribing(w) ==
    /\ pc[w] = "send_transcribing"
    /\ Send(w, TranscribingMsg, "transcribe")
    /\ UNCHANGED <<SendFrame, conversation_history, transcription, histArg, port,
                   completed, appended>>

\* As if handle_audio_data had no try/except around the transcription.
Transcribe_uncaught(w) ==
    /\ pc[w] = "transcribe"
    /\ \E r \in (IF "value" \in ports THEN Texts ELSE {}) \cup (ports \ {"value"}) :
          /\ transcription' = [transcription EXCEPT ![w] =
                                  IF r \in Texts THEN r ELSE None]
          /\ port' = [port EXCEPT ![w] = IF r \in Texts THEN "value" ELSE r]
          /\ pc' = [pc EXCEPT ![w] =
                       CASE r \in Texts -> "send_transcription"
                         [] r = None    -> "send_no_speech"
                         [] OTHER       -> "crashed"]
    /\ UNCHANGED <<SendFrame, active_connections, sessions, conversation_history,
                   chan, histArg, sends, completed, disconnects, appended>>

TranscribeResults ==
    (IF "value" \in ports THEN Texts ELSE {}) \cup (ports \ {"value"})

\* As if line 74 did not test the transcription: an empty result is sent on
\* as a transcription.
Transcribe_no_test(w) ==
    /\ pc[w] = "transcribe"
    /\ \E r \in TranscribeResults :
          /\ transcription' = [transcription EXCEPT ![w] =
                                  IF r \in Texts THEN r ELSE None]
          /\ port' = [port EXCEPT ![w] = IF r \in Texts THEN "value" ELSE r]
          /\ pc' = [pc EXCEPT ![w] =
                       CASE r \in Texts -> "send_transcription"
                         [] r = None    -> "send_transcription"
                         [] OTHER       -> "send_audio_failed"]
    /\ UNCHANGED <<SendFrame, active_connections, sessions, conversation_history,
                   chan, histArg, sends, completed, disconnects, appended>>

\* line 72 and the test of line 74: transcribe_audio returns a text, returns
\* nothing, or raises (caught at line 118).
Transcribe(w) ==
    /\ pc[w] = "transcribe"
    /\ \E r \in TranscribeResults :
          /\ transcription' = [transcription EXCEPT ![w] =
                                  IF r \in Texts THEN r ELSE None]
          /\ port' = [port EXCEPT ![w] = IF r \in Texts THEN "value" ELSE r]
          /\ pc' = [pc EXCEPT ![w] =
                       CASE r \in Texts -> "send_transcription"
                         [] r = None    -> "send_no_speech"
                         [] OTHER       -> "send_audio_failed"]
    /\ UNCHANGED <<SendFrame, active_connections, sessions, conversation_history,
                   chan, histArg, sends, completed, disconnects, appended>>

\* lines 76-85: the transcription message, then the history update.
SendTranscription(w) ==
    /\ pc[w] = "send_transcription"
    /\ Send(w, TranscriptionMsg(transcription[w]), "send_generating")
    /\ conversation_history' =
          add_to_conversation_history(conversation_history, transcription[w])
    /\ appended' = Append(appended, transcription[w])
    /\ UNCHANGED <<SendFrame, transcription, histArg, port, completed>>

\* lines 88-96: status generating, then generate_response_suggestion is
\* called with a copy of the history taken at the call.
SendGenerating(w) ==
    /\ pc[w] = "send_generating"
    /\ Send(w, GeneratingMsg, "generate")
    /\ histArg' = [histArg EXCEPT ![w] =
                      get_conversation_history(conversation_history)]
    /\ UNCHANGED <<SendFrame, conversation_history, transcription, port, completed,
                   appended>>

\* The generation backend is reachable and answers, or it is not.
Backends == {"up", "down"}

\* What the suggestion call of lines 93-96 can do, given the backend.
\* AIService defines no generate_response_suggestion, so the call as written
\* raises; generate_coaching_response, the generation method AIService
\* has, returns the parsed suggestion, and None when the request to the
\* backend raises (ai_service.py lines 94-96). A backend that is down yields
\* no suggestion either way.
generate_response_suggestion(b) ==
    IF b = "down" THEN {None, "raise"} ELSE {"value", None, "raise"}

\* lines 93-98: the suggestion is returned, is empty, or the call raises.
Generate(w) ==
    /\ pc[w] = "generate"
    /\ \E b \in Backends :
       \E r \in ports \cap generate_response_suggestion(b) :
          /\ backend' = [backend EXCEPT ![w] = b]
          /\ port' = [port EXCEPT ![w] = r]
          /\ pc' = [pc EXCEPT ![w] =
                       CASE r = "value" -> "send_ai_response"
                         [] r = None    -> "send_gen_failed"
                         [] OTHER       -> "send_audio_failed"]
    /\ UNCHANGED <<accepted, inbox, session_id, frame, arrived, handled, nappend,
                   live, kinds, ports, services, active_connections, sessions,
                   conversation_history, chan, transcription, histArg, sends,
                   completed, disconnects, appended>>

\* A last send of a handler, after which handle_message returns.
LastSend(w, at, m) ==
    /\ pc[w] = at
    /\ Send(w, m, "recv")
    /\ Return(w)
    /\ UNCHANGED <<SendFrame, conversation_history, transcription, histArg, port,
                   appended>>

\* As if the except branch only logged and sent nothing.
SendAudioFailed_silent(w) ==
    /\ pc[w] = "send_audio_failed"
    /\ pc' = [pc EXCEPT ![w] = "recv"]
    /\ Return(w)
    /\ UNCHANGED <<SendFrame, active_connections, sessions, chan, sends, disconnects,
                   conversation_history, transcription, histArg, port, appended>>

\* lines 99-106
SendAiResponse(w) == LastSend(w, "send_ai_response", AiResponseMsg(transcription[w]))
\* As if line 98 did not test the suggestion: an empty one is sent on.
SendGenFailed_as_response(w) ==
    LastSend(w, "send_gen_failed", AiResponseMsg(transcription[w]))
\* lines 108-111
SendGenFailed(w) == LastSend(w, "send_gen_failed", GenFailedMsg)
\* lines 113-116
SendNoSpeech(w) == LastSend(w, "send_no_speech", NoSpeechMsg)
\* lines 118-123
SendAudioFailed(w) == LastSend(w, "send_audio_failed", AudioFailedMsg)

\* ---------------------------------------------- handle_message
\* lines 134-138
SendInvalidAudio(w) == LastSend(w, "send_invalid_audio", InvalidAudioMsg)
\* lines 140-144
SendPong(w) == LastSend(w, "send_pong", PongMsg)
\* lines 148-151 (the history was cleared at line 147, before the await)
SendHistoryCleared(w) == LastSend(w, "send_history_cleared", HistoryClearedMsg)
\* lines 153-157
SendUnknown(w) == LastSend(w, "send_unknown", UnknownTypeMsg(frame[w]))
\* websocket_endpoint, lines 170-174
SendInvalidJson(w) == LastSend(w, "send_invalid_json", InvalidJsonMsg)

Next ==
    \E w \in Channels :
        \/ Connect(w)
        \/ ConnectSend(w)
        \/ ClientSend(w)
        \/ Receive(w)
        \/ ClientDisconnect(w)
        \/ SendTranscribing(w)
        \/ Transcribe(w)
        \/ SendTranscription(w)
        \/ SendGenerating(w)
        \/ Generate(w)
        \/ SendAiResponse(w)
        \/ SendGenFailed(w)
        \/ SendNoSpeech(w)
        \/ SendAudioFailed(w)
        \/ SendInvalidAudio(w)
        \/ SendPong(w)
        \/ SendHistoryCleared(w)
        \/ SendUnknown(w)
        \/ SendInvalidJson(w)

Spec == Init /\ [][Next]_vars

\* The steps the event loop runs by itself: a coroutine that can go on is
\* resumed. The steps left out wait for someone else: the client (ClientSend,
\* ClientDisconnect) and the two services, whose calls at lines 72 and 93-96
\* are awaited with no timeout (no asyncio.wait_for, no timeout argument),
\* so that Transcribe and Generate happen when the service answers.
Resume(w) ==
    \/ Connect(w)
    \/ ConnectSend(w)
    \/ Receive(w)
    \/ SendTranscribing(w)
    \/ SendTranscription(w)
    \/ SendGenerating(w)
    \/ SendAiResponse(w)
    \/ SendGenFailed(w)
    \/ SendNoSpeech(w)
    \/ SendAudioFailed(w)
    \/ SendInvalidAudio(w)
    \/ SendPong(w)
    \/ SendHistoryCleared(w)
    \/ SendUnknown(w)
    \/ SendInvalidJson(w)

\* One client, with the event loop running every coroutine that is ready.
SpecLive == Init /\ [][Next]_vars /\ \A w \in Channels : WF_vars(Resume(w))

\* Two websockets: no frame is malformed, so the branches that answer a
\* malformed frame are left out.
NextTwo ==
    \E w \in Channels :
        \/ Connect(w)
        \/ ConnectSend(w)
        \/ ClientSend(w)
        \/ Receive(w)
        \/ ClientDisconnect(w)
        \/ SendTranscribing(w)
        \/ Transcribe(w)
        \/ SendTranscription(w)
        \/ SendGenerating(w)
        \/ Generate(w)
        \/ SendAiResponse(w)
        \/ SendPong(w)
        \/ SendHistoryCleared(w)

SpecTwo == InitTwo /\ [][NextTwo]_vars

\* --------------------------------------------- the history alone
\* add_to_conversation_history and clear_conversation_history applied in any
\* order; the utterances are numbered by arrival.
HistAppend ==
    /\ nappend < MaxAppends
    /\ nappend' = nappend + 1
    /\ conversation_history' =
          add_to_conversation_history(conversation_history, nappend + 1)
    /\ appended' = Append(appended, nappend + 1)
    /\ UNCHANGED <<active_connections, sessions, chan, accepted, inbox, pc,
                   session_id, frame, transcription, histArg, sends, port, arrived,
                   handled, completed, disconnects, live, kinds, ports, backend, services>>

HistClear ==
    /\ conversation_history' = clear_conversation_history(conversation_history)
    /\ appended' = <<>>
    /\ UNCHANGED <<active_connections, sessions, chan, accepted, inbox, pc,
                   session_id, frame, transcription, histArg, sends, port, arrived,
                   handled, completed, disconnects, nappend, live, kinds, ports, backend, services>>

NextHist == HistAppend \/ HistClear

SpecHist == Init /\ [][NextHist]_vars

\* ------------------------------------- the suggestion service alone
\* The variables of the connection layer.
connection == <<active_connections, sessions, conversation_history, chan, accepted,
                inbox, pc, session_id, frame, transcription, histArg, sends, port,
                backend, arrived, handled, completed, disconnects, appended,
                nappend, live, kinds, ports>>

\* The service is constructed with USE_LOCAL_LLM unset or set to some text.
InitLLM == Setup({}, {}, {}) /\ llm \in {LLMService(e) : e \in EnvValues}

\* One call of llm_service.generate_suggestions(text, intent, context).
GenerateSuggestions ==
    /\ \E intent \in Intents, sk \in SkillLists, s \in SetupOutcomes, reply \in Replies :
          LET g == generate_suggestions(llm, intent, [matching_skills |-> sk], s, reply)
          IN  /\ llm' = g.llm
              /\ tips' = [called |-> TRUE, intent |-> intent, skills |-> sk,
                          setup |-> s, reply |-> reply, asked |-> g.asked,
                          result |-> g.result]
    /\ UNCHANGED <<connection, retriever, ctx, intents, streaming>>

NextLLM == GenerateSuggestions

SpecLLM == InitLLM /\ [][NextLLM]_vars

\* --------------------------------------- the context retriever alone
\* One call of retriever.retrieve_context(question_text, intent), the files
\* of the data directory being in any state.
RetrieveContext ==
    /\ \E question \in Questions, intent \in RetrieverIntents,
          rf \in ResumeFiles, jf \in JdFiles :
          LET c == retrieve_context(retriever, question, intent, rf, jf)
          IN  /\ retriever' = c.retriever
              /\ ctx' = [called |-> TRUE, question |-> question, intent |-> intent,
                         context |-> c.context, failed |-> c.failed]
    /\ UNCHANGED <<connection, llm, tips, intents, streaming>>

NextRetriever == RetrieveContext

SpecRetriever == Init /\ [][NextRetriever]_vars

\* ---------------------------------------- the intent detector alone
\* One call of detect_intent(text), by any caller.
DetectIntent ==
    /\ \E text \in Utterances :
          LET label == detect_intent(text)
          IN  /\ detected' = [called |-> TRUE, text |-> text, label |-> label]
              /\ labels' = IF text.raw \in DOMAIN labels THEN labels
                            ELSE labels @@ (text.raw :> label)
    /\ UNCHANGED <<connection, llm, tips, retriever, ctx, streaming>>

NextIntent == DetectIntent

SpecIntent == Init /\ [][NextIntent]_vars

\* ------------------------------------- the streaming endpoint alone
\* The variables the streaming endpoint leaves alone.
StreamFrame == <<connection, tips, retriever, ctx, intents>>

\* lines 164-165: accept, and an empty buffer.
StreamAccept ==
    /\ spc = "closed"
    /\ spc' = "receive"
    /\ buffer' = <<>>
    /\ UNCHANGED <<StreamFrame, llm, segments, stext, out, nchunks>>

\* lines 169-173: a frame is received and appended; the threshold is tested.
StreamReceive ==
    /\ spc = "receive"
    /\ nchunks < MaxChunks
    /\ \E size \in ChunkSizes :
          /\ buffer' = Append(buffer, Chunk(nchunks + 1, size))
          /\ spc' = IF buffer_len(buffer') > Threshold THEN "transcribe" ELSE "receive"
    /\ nchunks' = nchunks + 1
    /\ UNCHANGED <<StreamFrame, llm, segments, stext, out>>

\* receive_bytes raises (the client has gone): lines 203-205.
StreamClose ==
    /\ spc = "receive"
    /\ spc' = "done"
    /\ UNCHANGED <<StreamFrame, llm, buffer, segments, stext, out, nchunks>>

\* loop.run_until_complete, called by transcribe_segment and by
\* generate_suggestions from inside the coroutine of audio_socket: it raises
\* RuntimeError when the loop it gets is the running one, and returns the
\* result where the loop can be re-entered.
run_until_complete == {"returns", "raise"}

\* lines 176-177: the whole buffer is handed to transcribe_segment, and
\* cleared once the call has returned; a raise goes to line 195.
StreamTranscribe ==
    /\ spc = "transcribe"
    /\ segments' = Append(segments, buffer)
    /\ \E o \in run_until_complete :
       \E t \in StreamTexts \cup {u \in Utterances : u.is_str /\ u.raw = ""} :
          IF o = "raise"
          THEN /\ spc' = "send_error"
               /\ UNCHANGED <<buffer, stext>>
          ELSE /\ buffer' = <<>>
               /\ stext' = t
               /\ spc' = IF t.raw # "" THEN "pipeline" ELSE "receive"
    /\ UNCHANGED <<StreamFrame, llm, out, nchunks>>

\* lines 179-193: intent, context, suggestions, and the tips sent with the
\* transcript added. A result that is no dict cannot take the transcript;
\* a raise, of a call or of send_json, goes to line 195.
StreamPipeline ==
    /\ spc = "pipeline"
    /\ \E o \in run_until_complete, sk \in SkillLists, s \in SetupOutcomes,
          reply \in StreamReplies, sent \in BOOLEAN :
          LET intent == detect_intent(stext)
              g == generate_suggestions(llm, intent, [matching_skills |-> sk], s, reply)
          IN  IF o = "raise"
              THEN spc' = "send_error" /\ UNCHANGED <<llm, out>>
              ELSE /\ llm' = g.llm
                   /\ IF g.result.ret # "dict"
                      THEN spc' = "send_error" /\ UNCHANGED out
                      ELSE /\ out' = Payload(g.result.bullets, g.result.follow_up,
                                              stext.raw, None)
                           /\ spc' = IF sent THEN "receive" ELSE "send_error"
    /\ UNCHANGED <<StreamFrame, buffer, segments, stext, nchunks>>

\* lines 195-201: the error payload; when this send raises, lines 203-205
\* close the socket.
StreamSendError ==
    /\ spc = "send_error"
    /\ out' = ErrorPayload
    /\ \E sent \in BOOLEAN : spc' = IF sent THEN "receive" ELSE "done"
    /\ UNCHANGED <<StreamFrame, llm, buffer, segments, stext, nchunks>>

NextStream ==
    \/ StreamAccept
    \/ StreamReceive
    \/ StreamClose
    \/ StreamTranscribe
    \/ StreamPipeline
    \/ StreamSendError

SpecStream == Init /\ [][NextStream]_vars

\* =================================================================
\* Properties
\* =================================================================
Last(q) == q[Len(q)]

\* json.loads of a wire text, as the client reads it.
json_loads(p) == Msg(p[2], p[4], p[6], p[8])

\* The messages that end an audio cycle.
Terminal(m) ==
    \/ m.type \in {"ai_response", "error"}
    \/ m.type = "status" /\ m.status = "no_speech"

\* Calls of send_message with a terminal message in the current handler.
TerminalSends(w) == {i \in 1..Len(sends[w]) : Terminal(sends[w][i].msg)}

\* Calls of send_text with a terminal message issued by the current handler.
TerminalTexts(w) ==
    {i \in 1..Len(chan[w]) :
        chan[w][i].n = Handler(w) /\ Terminal(json_loads(chan[w][i].payload))}

\* The coroutine is inside handle_message.
InHandler(w) == pc[w] \notin {"closed", "connect_send", "recv", "done", "crashed"}

\* handle_message has returned for the last frame received.
Returned(w) == pc[w] \in {"recv", "done"}

Registered(w) ==
    /\ session_id[w] \in DOMAIN active_connections
    /\ active_connections[session_id[w]] = w
    /\ session_id[w] \in DOMAIN sessions
    /\ sessions[session_id[w]].is_active

\* No send_text on w has raised.
ChannelSound(w) == \A i \in 1..Len(chan[w]) : chan[w][i].ok

\* ---- C1
\* C1: a cycle of handle_audio_data for a decoded payload calls send_message
\* with a terminal message (no_speech, ai_response, error) exactly once, at
\* its end, whatever the services do: none before the cycle ends, one once it
\* has ended; send_text is called with a terminal message at most once per
\* cycle, and exactly once when the session was still registered at that call.
C1_OneTerminal ==
    \A w \in Channels :
        frame[w] = "audio" =>
            /\ Cardinality(TerminalSends(w)) = IF Returned(w) THEN 1 ELSE 0
            /\ Cardinality(TerminalTexts(w)) <= 1
            /\ (Returned(w) /\ Last(sends[w]).res # "noop")
                  => Cardinality(TerminalTexts(w)) = 1

\* An audio cycle has ended, in the except branch.
C1_Witness ==
    \E w \in Channels :
        /\ frame[w] = "audio"
        /\ pc[w] = "recv"
        /\ Last(sends[w]).msg = AudioFailedMsg
        /\ Last(sends[w]).res = "sent"

\* ---- C2
\* C2: once a service call of an audio cycle has raised, the coroutine is in
\* the except branch or back in the receive loop, never out of the endpoint;
\* the cycle ends with the one error message "Audio processing failed"; and
\* as long as no send_text has raised and the client has not disconnected,
\* the session is still registered and active.
C2_ExceptionCaught ==
    \A w \in Channels :
        port[w] = "raise" =>
            /\ pc[w] \in {"send_audio_failed", "recv", "done"}
            /\ Returned(w) =>
                  /\ Last(sends[w]).msg = AudioFailedMsg
                  /\ TerminalSends(w) = {Len(sends[w])}
            /\ (ChannelSound(w) /\ pc[w] # "done") => Registered(w)

\* After a cycle that raised, a later ping of the same session was answered.
C2_Witness ==
    \E w \in Channels :
        \E i, j \in 1..Len(chan[w]) :
            /\ i < j
            /\ json_loads(chan[w][i].payload) = AudioFailedMsg
            /\ json_loads(chan[w][j].payload) = PongMsg
            /\ chan[w][j].ok
            /\ Registered(w)

\* ---- C3
\* C3: on one websocket the frames are handled in arrival order, one at a
\* time: the frames handled followed by the frames waiting are the frames
\* sent; every handler entered before the current one has returned; the
\* send_text calls of a websocket are ordered by handler; and an ai_response
\* follows the transcription of its own handler, carrying the same text.
C3_OneAtATime ==
    \A w \in Channels :
        /\ handled[w] \o inbox[w] = arrived[w]
        /\ completed[w] = IF InHandler(w) \/ pc[w] = "crashed"
                          THEN Len(handled[w]) - 1
                          ELSE Len(handled[w])
        /\ \A i, j \in 1..Len(chan[w]) : i < j => chan[w][i].n <= chan[w][j].n
        /\ \A j \in 1..Len(chan[w]) :
              json_loads(chan[w][j].payload).type = "ai_response" =>
                  \E i \in 1..(j - 1) :
                      /\ chan[w][i].n = chan[w][j].n
                      /\ json_loads(chan[w][i].payload) =
                            TranscriptionMsg(json_loads(chan[w][j].payload).text)

\* A second frame waits in the queue while the first one's cycle is awaiting
\* the suggestion.
C3_Witness ==
    \E w \in Channels : pc[w] = "generate" /\ inbox[w] # <<>>

\* ---- C4
\* The history that generate_response_suggestion is given for the session of
\* websocket b: get_conversation_history takes no session.
HistoryFor(b) == get_conversation_history(conversation_history)

\* C4: a step of the handler of an audio or clear_history frame of one
\* session leaves the conversation history used for every other connected
\* session unchanged.
C4_PerSessionHistory ==
    [][\A a, b \in Channels :
          (/\ a # b
           /\ pc'[a] # pc[a]
           /\ frame'[a] \in {"audio", "clear_history"}
           /\ pc[b] \notin {"closed", "connect_send"})
          => HistoryFor(b)' = HistoryFor(b)]_vars

\* ---- C5
\* connect has returned on w and no frame has been received yet.
Connected(w) == pc[w] = "recv" /\ handled[w] = <<>>

C6_DisconnectIdempotent ==
    \A u \in SessionIds :
        LET d  == disconnect(active_connections, sessions, u)
            d2 == disconnect(d.ac, d.sess, u)
        IN  /\ ~d.raised
            /\ u \notin DOMAIN d.ac
            /\ DOMAIN d.sess = DOMAIN sessions
            /\ u \in DOMAIN sessions => ~d.sess[u].is_active
            /\ \A v \in DOMAIN sessions \ {u} : d.sess[v] = sessions[v]
            /\ \A v \in DOMAIN active_connections \ {u} :
                  v \in DOMAIN d.ac /\ d.ac[v] = active_connections[v]
            /\ d2 = d
            /\ (u \notin DOMAIN sessions \/ disconnects[u] >= 1) =>
                  /\ d.ac = active_connections
                  /\ d.sess = sessions
            /\ disconnects[u] >= 1 =>
                  /\ u \notin DOMAIN active_connections
                  /\ ~sessions[u].is_active

\* disconnect was called twice for one session: by send_message when
\* send_text raised, then by the endpoint on WebSocketDisconnect.
C6_Witness == \E u \in SessionIds : disconnects[u] = 2

\* ---- C7
\* C7: once disconnect has been called for the session of a websocket, no
\* step calls send_text on that websocket again, and every send_message the
\* coroutine still issues for it is a no-op that does not raise.
C7_NoSendAfterDisconnect ==
    [][\A w \in Channels :
          (session_id[w] # None /\ disconnects[session_id[w]] >= 1) =>
              /\ chan'[w] = chan[w]
              /\ Len(sends'[w]) = Len(sends[w]) + 1 =>
                    /\ Last(sends'[w]).res = "noop"
                    /\ pc'[w] # "crashed"]_vars

\* An audio cycle went on after one of its sends had failed: a later send of
\* the same cycle was a no-op.
C7_Witness ==
    \E w \in Channels :
        /\ frame[w] = "audio"
        /\ \E i, j \in 1..Len(sends[w]) :
              i < j /\ sends[w][i].res = "failed" /\ sends[w][j].res = "noop"

\* ---- C8
\* C8: a send_text call that raised is the last call on its websocket (it is
\* not repeated and nothing is sent after it), the session is then absent
\* from active_connections with is_active false, and the coroutine that
\* called send_message goes on as after a send that worked.
C8_FailureDisconnects ==
    \A w \in Channels :
        /\ \A i \in 1..Len(chan[w]) :
              ~chan[w][i].ok =>
                  /\ i = Len(chan[w])
                  /\ session_id[w] \notin DOMAIN active_connections
                  /\ ~sessions[session_id[w]].is_active
        /\ (\E i \in 1..Len(sends[w]) : sends[w][i].res = "failed") =>
              pc[w] # "crashed"

\* send_text raised in the middle of an audio cycle, and the cycle went on.
C8_Witness ==
    \E w \in Channels :
        /\ pc[w] = "generate"
        /\ chan[w] # <<>>
        /\ ~Last(chan[w]).ok

\* ---- C9
\* C9: a send_message for a session that is in active_connections calls
\* send_text exactly once, on the websocket registered for that session,
\* with a text that parses back to the message; the calls recorded on every
\* other websocket stay as they were.
C9_SendDelivers ==
    [][\A w \in Channels :
          (/\ Len(sends'[w]) = Len(sends[w]) + 1
           /\ session_id[w] \in DOMAIN active_connections)
          => LET ws == active_connections[session_id[w]]
             IN  /\ Len(chan'[ws]) = Len(chan[ws]) + 1
                 /\ SubSeq(chan'[ws], 1, Len(chan[ws])) = chan[ws]
                 /\ json_loads(Last(chan'[ws]).payload) = Last(sends'[w]).msg
                 /\ \A x \in Channels \ {ws} : chan'[x] = chan[x]]_vars

\* Two sessions are connected and one of them has been sent a second message.
C9_Witness ==
    \E w \in Channels :
        /\ Cardinality(DOMAIN active_connections) = 2
        /\ Len(chan[w]) >= 2
        /\ Last(chan[w]).ok

\* ---- C10

\* C10: the history never holds more than 20 entries, and it is always the
\* last 20 (or fewer) utterances appended since the last clear, in the order
\* they were appended, the newest last.
C10_HistoryBounded ==
    /\ Len(conversation_history) <= HistoryCap
    /\ LET n == Len(appended)
           k == Min(n, HistoryCap)
       IN  conversation_history = SubSeq(appended, n - k + 1, n)

\* More than 20 utterances were appended without a clear: the oldest are gone.
C10_Witness ==
    /\ Len(appended) > HistoryCap
    /\ Len(conversation_history) = HistoryCap
    /\ conversation_history[1] # appended[1]
    /\ Last(conversation_history) = Last(appended)

\* ---- C11
\* The messages of the send_message calls of the current handler, in order.
Msgs(w) == [i \in 1..Len(sends[w]) |-> sends[w][i].msg]

IsPrefix(p, q) == Len(p) <= Len(q) /\ SubSeq(q, 1, Len(p)) = p

\* The cycle has passed the transcription call.
Transcribed(w) ==
    frame[w] = "audio" /\ pc[w] \notin {"send_transcribing", "transcribe"}

\* The outbound messages of a cycle are one of `whole`, sent in that order.
InOrder(w, whole) ==
    \E o \in whole : IsPrefix(Msgs(w), o) /\ (Returned(w) => Msgs(w) = o)

C11_Order ==
    \A w \in Channels :
        frame[w] = "audio" =>
            /\ ~Transcribed(w) => IsPrefix(Msgs(w), <<TranscribingMsg>>)
            /\ (Transcribed(w) /\ transcription[w] = None /\ port[w] = None)
                  => InOrder(w, {<<TranscribingMsg, NoSpeechMsg>>})
            /\ (Transcribed(w) /\ transcription[w] # None)
                  => InOrder(w, {<<TranscribingMsg, TranscriptionMsg(transcription[w]),
                                   GeneratingMsg, x>> :
                                 x \in {AiResponseMsg(transcription[w]), GenFailedMsg,
                                        AudioFailedMsg}})

\* C11: the send_message calls of one audio cycle come in a fixed order:
\* status transcribing first; when the transcription returns no text, then
\* status no_speech and nothing else; when it returns a text, the
\* transcription carrying that text, then status generating, then the
\* ai_response or an error. The history changes in a cycle only at the step
\* that sends the transcription, so a cycle without text leaves it unchanged.
C11_CycleOrder ==
    /\ []C11_Order
    /\ [][\A w \in Channels :
            (frame[w] = "audio" /\ InHandler(w) /\ pc[w] # "send_transcription")
            => conversation_history' = conversation_history]_vars

\* Both kinds of cycle have run on one websocket: the first to its
\* ai_response, which put an utterance in the history, the second to no_speech.
C11_Witness ==
    \E w \in Channels :
        /\ frame[w] = "audio"
        /\ pc[w] = "recv"
        /\ Msgs(w) = <<TranscribingMsg, NoSpeechMsg>>
        /\ \A i \in 1..Len(sends[w]) : sends[w][i].res = "sent"
        /\ conversation_history # <<>>
        /\ \E i \in 1..Len(chan[w]) :
              json_loads(chan[w][i].payload).type = "ai_response"

\* ---- C12
\* C12: when the transcription returned a text and the generation backend is
\* down at the suggestion call, the cycle still ends with an ai_response
\* (bullets and follow_up from the canned fallback), not with an error.
C12_FallbackResponse ==
    \A w \in Channels :
        (frame[w] = "audio" /\ Returned(w) /\ backend[w] = "down")
        => /\ transcription[w] \in Texts
           /\ Last(sends[w]).msg = AiResponseMsg(transcription[w])

\* ---- C13
\* The suggestion call of the current cycle returned nothing.
GenReturnedNothing(w) ==
    /\ frame[w] = "audio"
    /\ transcription[w] \in Texts
    /\ port[w] = None
    /\ pc[w] \in {"send_gen_failed", "recv", "done"}

\* C13: when the suggestion call returns nothing for a transcribed utterance,
\* the cycle has sent transcribing, the transcription and generating, then
\* sends the error "Failed to generate AI response" and returns; it sends no
\* ai_response; the session stays registered and active (the transport
\* working and the client still there); the utterance is the newest entry
\* of the history.
C13_GenerationFailed ==
    \A w \in Channels :
        GenReturnedNothing(w) =>
            LET t == transcription[w]
                before == <<TranscribingMsg, TranscriptionMsg(t), GeneratingMsg>>
            IN  /\ IsPrefix(before, Msgs(w))
                /\ Msgs(w) = IF Returned(w) THEN Append(before, GenFailedMsg) ELSE before
                /\ \A i \in 1..Len(sends[w]) : sends[w][i].msg.type # "ai_response"
                /\ (ChannelSound(w) /\ pc[w] # "done") => Registered(w)
                /\ ChannelSound(w) =>
                      \E i \in 1..Len(chan[w]) :
                          /\ chan[w][i].n = Handler(w)
                          /\ json_loads(chan[w][i].payload) = TranscriptionMsg(t)
                /\ conversation_history # <<>>
                /\ Last(conversation_history) = t

\* The error of a cycle whose suggestion came back empty was delivered.
C13_Witness ==
    \E w \in Channels :
        /\ GenReturnedNothing(w)
        /\ pc[w] = "recv"
        /\ ChannelSound(w)
        /\ Registered(w)
        /\ json_loads(Last(chan[w]).payload) = GenFailedMsg

\* ---- C14
\* The session is as it was: registered and active, unless the transport
\* failed or the client left.
StaysActive(w) == (ChannelSound(w) /\ pc[w] # "done") => Registered(w)

\* The handler of the current frame sends `m` and nothing else.
OnlySends(w, m) ==
    /\ IsPrefix(Msgs(w), <<m>>)
    /\ Returned(w) => Msgs(w) = <<m>>
    /\ {i \in 1..Len(chan[w]) : chan[w][i].n = Handler(w)} \subseteq
          {i \in 1..Len(chan[w]) : json_loads(chan[w][i].payload) = m}
    /\ Cardinality({i \in 1..Len(chan[w]) : chan[w][i].n = Handler(w)}) <= 1

\* C14: an audio message whose payload cannot be decoded makes the handler
\* send exactly one message, the error "Invalid audio data"; it sends no
\* status transcribing, calls neither transcription nor generation, never
\* changes the history, and leaves the session registered and active.
C14_InvalidAudio ==
    /\ [](\A w \in Channels :
            frame[w] = "audio_bad" =>
                /\ pc[w] \in {"send_invalid_audio", "recv", "done"}
                /\ OnlySends(w, InvalidAudioMsg)
                /\ port[w] = None
                /\ backend[w] = None
                /\ StaysActive(w))
    /\ [][\A w \in Channels :
            (frame'[w] = "audio_bad" /\ pc[w] # pc'[w])
            => /\ conversation_history' = conversation_history
               /\ transcription' = transcription]_vars

\* The error was delivered to a session that had an utterance in its history.
C14_Witness ==
    \E w \in Channels :
        /\ frame[w] = "audio_bad"
        /\ pc[w] = "recv"
        /\ Registered(w)
        /\ conversation_history # <<>>
        /\ Last(chan[w]).ok
        /\ json_loads(Last(chan[w]).payload) = InvalidAudioMsg

\* ---- C15
\* The send_text calls of the k-th handler on w.
TextsOf(w, k) == {i \in 1..Len(chan[w]) : chan[w][i].n = k}

\* C15: a text frame that is not valid JSON makes the endpoint send exactly
\* one message, the error "Invalid JSON format", and go on receiving: the
\* session is not disconnected, and when the next frame is a ping its handler
\* answers, after that error, with exactly one pong.
C15_InvalidJson ==
    \A w \in Channels :
        /\ frame[w] = "not_json" =>
              /\ pc[w] \in {"send_invalid_json", "recv", "done"}
              /\ OnlySends(w, InvalidJsonMsg)
              /\ StaysActive(w)
        /\ \A k \in 1..completed[w] :
              (handled[w][k] = "not_json" /\ ChannelSound(w)) =>
                  /\ \E i \in TextsOf(w, k) :
                        /\ TextsOf(w, k) = {i}
                        /\ json_loads(chan[w][i].payload) = InvalidJsonMsg
                  /\ (k + 1 <= completed[w] /\ handled[w][k + 1] = "ping") =>
                        \E j \in TextsOf(w, k + 1) :
                            /\ TextsOf(w, k + 1) = {j}
                            /\ json_loads(chan[w][j].payload) = PongMsg
                            /\ \A i \in TextsOf(w, k) : i < j

\* A ping that followed a frame that was not JSON has been answered.
C15_Witness ==
    \E w \in Channels :
        /\ handled[w] = <<"not_json", "ping">>
        /\ completed[w] = 2
        /\ ChannelSound(w)
        /\ Registered(w)
        /\ json_loads(Last(chan[w]).payload) = PongMsg

\* ---- C16
\* C16: a message whose type tag is none of audio, ping, clear_history makes
\* the handler send exactly one message, an error naming the tag received;
\* no service is called, the history never changes, the registry changes
\* only when the send of that error fails, and the session stays registered
\* and active.
C16_UnknownType ==
    /\ [](\A w \in Channels :
            frame[w] = "bogus" =>
                /\ pc[w] \in {"send_unknown", "recv", "done"}
                /\ OnlySends(w, Msg("error", "", "Unknown message type", "bogus"))
                /\ port[w] = None
                /\ StaysActive(w))
    /\ [][\A w \in Channels :
            (frame'[w] = "bogus" /\ pc[w] # pc'[w] /\ pc'[w] # "done")
            => /\ conversation_history' = conversation_history
               /\ (active_connections' # active_connections \/ sessions' # sessions)
                     => (sends'[w] # <<>> /\ Last(sends'[w]).res = "failed")]_vars

\* The error naming the tag was delivered to a session with a history.
C16_Witness ==
    \E w \in Channels :
        /\ frame[w] = "bogus"
        /\ pc[w] = "recv"
        /\ Registered(w)
        /\ conversation_history # <<>>
        /\ Last(chan[w]).ok
        /\ json_loads(Last(chan[w]).payload).session_id = "bogus"

\* ---- C17
\* C17: a ping makes the handler send exactly one message, and that first
\* and only message is a pong carrying a timestamp; the handler calls
\* neither transcription nor generation and never changes the history.
C17_PingPong ==
    /\ [](\A w \in Channels :
            frame[w] = "ping" =>
                /\ pc[w] \in {"send_pong", "recv", "done"}
                /\ OnlySends(w, Msg("pong", "", "timestamp", ""))
                /\ port[w] = None
                /\ backend[w] = None)
    /\ [][\A w \in Channels :
            (frame'[w] = "ping" /\ pc[w] # pc'[w])
            => /\ conversation_history' = conversation_history
               /\ transcription' = transcription
               /\ histArg' = histArg]_vars

\* A pong was delivered after an audio cycle that left an utterance in the
\* history.
C17_Witness ==
    \E w \in Channels :
        /\ handled[w] = <<"audio", "ping">>
        /\ pc[w] = "recv"
        /\ completed[w] = 2
        /\ conversation_history # <<>>
        /\ Last(chan[w]).ok
        /\ json_loads(Last(chan[w]).payload).type = "pong"
        /\ json_loads(Last(chan[w]).payload).text = "timestamp"

\* ---- C18
\* C18: a clear_history message empties the history, whatever it held, before
\* its handler sends anything; the handler then sends exactly one message,
\* status history_cleared, and does not touch the history again, which is
\* still empty when the handler has returned (one session connected).
C18_ClearHistory ==
    /\ [](\A w \in Channels :
            frame[w] = "clear_history" =>
                /\ pc[w] \in {"send_history_cleared", "recv", "done"}
                /\ OnlySends(w, HistoryClearedMsg)
                /\ Len(conversation_history) = 0
                /\ port[w] = None)
    /\ [][\A w \in Channels :
            /\ (Len(handled'[w]) = Len(handled[w]) + 1 /\ frame'[w] = "clear_history")
                  => /\ Len(conversation_history') = 0
                     /\ sends'[w] = <<>>
                     /\ chan' = chan
            /\ pc[w] = "send_history_cleared"
                  => conversation_history' = conversation_history]_vars

\* A history that held an utterance was cleared and the status delivered.
C18_Witness ==
    \E w \in Channels :
        /\ handled[w] = <<"audio", "clear_history">>
        /\ pc[w] = "recv"
        /\ completed[w] = 2
        /\ \E i \in TextsOf(w, 1) :
              json_loads(chan[w][i].payload).type = "transcription"
        /\ conversation_history = <<>>
        /\ Last(chan[w]).ok
        /\ json_loads(Last(chan[w]).payload) = HistoryClearedMsg

\* ---- C19
\* C19: whatever the model setup and the backend do, generate_suggestions
\* returns a dict whose bullets list is non-empty and whose follow_up is a
\* non-empty text.
C19_AlwaysTips ==
    tips.called =>
        /\ tips.result.ret = "dict"
        /\ Len(tips.result.bullets) > 0
        /\ tips.result.follow_up \notin {"", None}

\* ---- C20
\* C20: when the retrieval fails internally, the bundle retrieve_context
\* returns is the empty bundle.
C20_EmptyOnFailure ==
    (ctx.called /\ ctx.failed) => ctx.context = EmptyBundle

\* ---- C22
\* Category i of the table has a pattern that matches the lower-cased text.
CategoryMatches(i, text) ==
    \E j \in 1..Len(question_patterns[i].patterns) :
        question_patterns[i].patterns[j] \in text.found_lower

\* C22: for a non-empty text, detect_intent returns the label of the first
\* category, in the order behavioral, technical, experience, motivation,
\* strengths_weaknesses, future, situational, that has a pattern matching the
\* lower-cased text, never that of a later one; a text matching both
\* "what is .*" and "biggest weakness" is labelled technical; with no match
\* the label is general_question if the text contains a question word and
\* unknown otherwise.
C22_FirstCategoryWins ==
    (detected.called /\ detected.text.is_str /\ detected.text.raw # "") =>
        LET text == detected.text
            cats == 1..Len(question_patterns)
        IN  /\ [i \in cats |-> question_patterns[i].intent] =
                  <<"behavioral", "technical", "experience", "motivation",
                    "strengths_weaknesses", "future", "situational">>
            /\ \A i \in cats :
                  (CategoryMatches(i, text) /\ \A k \in 1..(i - 1) : ~CategoryMatches(k, text))
                  => detected.label = question_patterns[i].intent
            /\ {"what is .*", "biggest weakness"} \subseteq text.found_lower
                  => detected.label = "technical"
            /\ (\A i \in cats : ~CategoryMatches(i, text))
                  => detected.label =
                        IF text.words \cap {"what", "how", "why", "when", "where", "who"} # {}
                        THEN "general_question" ELSE "unknown"

\* A text matching a pattern of technical and one of strengths_weaknesses
\* was labelled.
C22_Witness ==
    /\ detected.called
    /\ {"what is .*", "biggest weakness"} \subseteq detected.text.found_lower
    /\ detected.label = "technical"

SegmentIds(i) == {segments[i][k].id : k \in 1..Len(segments[i])}

\* C21: the buffer is empty again before the next frame is appended,
\* whether or not the transcription succeeded, so no received frame is
\* handed to transcription in two segments.
C21_NoByteTwice ==
    \A i, j \in 1..Len(segments) :
        i # j => SegmentIds(i) \cap SegmentIds(j) = {}

\* ---- C24
\* The entry of id u in the two tables of the registry.
Entry(u) ==
    [connected |-> u \in DOMAIN active_connections,
     websocket |-> IF u \in DOMAIN active_connections
                   THEN active_connections[u] ELSE None,
     exists    |-> u \in DOMAIN sessions,
     is_active |-> u \in DOMAIN sessions /\ sessions[u].is_active]

\* C24: under any interleaving of the connects, disconnects and sends of
\* two sessions, an id is in active_connections if and only if its session
\* exists with is_active true, and a step of one session's coroutine never
\* adds, removes or alters the entry of another id.
C24_RegistryConsistent ==
    /\ [](\A u \in SessionIds : Entry(u).connected <=> Entry(u).is_active)
    /\ [][\A u \in SessionIds :
            Entry(u)' # Entry(u) =>
                \E w \in Channels : pc'[w] # pc[w] /\ session_id'[w] = u]_vars

\* Both sessions were registered; one has been disconnected, the other is
\* still registered and has been sent more than its confirmation.
C24_Witness ==
    \E w, x \in Channels :
        /\ w # x
        /\ pc[w] = "done"
        /\ Entry(session_id[w]).exists
        /\ ~Entry(session_id[w]).connected
        /\ Registered(x)
        /\ Len(chan[x]) >= 2

\* ---- C25
\* C25: a text frame that parses as JSON but is no object with a recognised
\* type (an array, a number, a string, null: kind not_object; an object
\* whose type is absent or unknown: kind bogus) is answered by an error
\* message and leaves the receive loop running: the coroutine never leaves
\* the loop on such a frame, and once its handler is over an error was sent.
C25_NonObjectRecoverable ==
    \A w \in Channels :
        frame[w] \in {"not_object", "bogus"} =>
            /\ pc[w] # "crashed"
            /\ pc[w] = "recv" =>
                  /\ sends[w] # <<>>
                  /\ sends[w][1].msg.type = "error"

\* ---- C26
\* The audio cycle of a is suspended at the await of the transcription
\* (line 72) or of the generation (lines 93-96).
Waiting(a) == pc[a] \in {"transcribe", "generate"}

C27_CycleTerminates ==
    \A w \in Channels :
        (pc[w] = "send_transcribing") ~>
            (pc[w] = "recv" /\ sends[w] # <<>> /\ Terminal(Last(sends[w]).msg))

\* ---- C28
\* C28: every payload given to send_json, from the generation, from a
\* fallback or from the error path of the streaming endpoint, carries a
\* bullets list and a follow_up string, and follow_up is never null.
C28_NoNullField ==
    out # NoPayload => out.follow_up # None

\* ---- C29
\* C29: the history handed to the generation call for an utterance has that
\* utterance as its last element, whatever the audio and clear_history
\* messages of other sessions do between the append and the call.
C29_HistoryEndsWithUtterance ==
    \A w \in Channels :
        pc[w] = "generate" =>
            /\ histArg[w] # <<>>
            /\ Last(histArg[w]) = transcription[w]

\* ---- C30
\* C30: whenever the receive loop of websocket_endpoint has ended for a
\* session, by a client disconnect or by an exception raised while a frame
\* is received or handled, the session is absent from active_connections
\* and marked inactive.
C30_ExitedMeansRemoved ==
    \A w \in Channels :
        pc[w] \in {"done", "crashed"} =>
            /\ session_id[w] \notin DOMAIN active_connections
            /\ ~sessions[session_id[w]].is_active

====
